---- MODULE Spec2Model ----
(***************************************************************************)
(* Resumable batch classification driver of emnlp-drivelology:             *)
(* run_gpt.py (single credential) and run_deepseek.py (key pool).          *)
(*                                                                         *)
(* Strings are sequences of tokens.  A token is TAB, NL, SP, or a "word":  *)
(* a non-empty fragment holding no tab and no line break and not starting  *)
(* or ending in white space (so "reverse punchline" is one word).  split,  *)
(* strip, replace and readlines only look at TAB, NL and SP, so they act   *)
(* on token sequences exactly as Python acts on the characters.  The only  *)
(* line break of the alphabet is NL: no input holds a carriage return.     *)
(***************************************************************************)
EXTENDS Integers, Sequences, FiniteSets, TLC

TAB == "\t"
NL == "\n"
SP == " "

\* ----- bounds of the model -----
MaxRows == 2
MaxRuns == 2
MaxKeys == 2

\* ----- pure string functions -----

\* str.replace(old, new) for one-character old/new
Replace(s, old, new) == [i \in DOMAIN s |-> IF s[i] = old THEN new ELSE s[i]]

\* index of the first occurrence of token c in s, 0 when absent
RECURSIVE FindFrom(_, _, _)
FindFrom(s, c, i) ==
    IF i > Len(s) THEN 0
    ELSE IF s[i] = c THEN i
    ELSE FindFrom(s, c, i + 1)

Find(s, c) == FindFrom(s, c, 1)

\* f.readlines(): cut after every line break, the terminator stays on the line;
\* a final piece without terminator is a line too; an empty file has no line
RECURSIVE ReadLines(_)
ReadLines(s) ==
    IF s = <<>> THEN <<>>
    ELSE LET k == Find(s, NL)
         IN  IF k = 0 THEN <<s>>
             ELSE <<SubSeq(s, 1, k)>> \o ReadLines(SubSeq(s, k + 1, Len(s)))

IsSpace(c) == c \in {SP, TAB, NL}

RECURSIVE LStrip(_)
LStrip(s) ==
    IF s # <<>> /\ IsSpace(Head(s)) THEN LStrip(Tail(s)) ELSE s

RECURSIVE RStrip(_)
RStrip(s) ==
    IF s # <<>> /\ IsSpace(s[Len(s)]) THEN RStrip(SubSeq(s, 1, Len(s) - 1)) ELSE s

\* str.strip(): white space is removed at both ends, tabs included
Strip(s) == RStrip(LStrip(s))

\* str.split(sep): always at least one field, empty fields are kept
RECURSIVE Split(_, _)
Split(s, sep) ==
    LET k == Find(s, sep)
    IN  IF k = 0 THEN <<s>>
        ELSE <<SubSeq(s, 1, k - 1)>> \o Split(SubSeq(s, k + 1, Len(s)), sep)

\* ----- the inputs -----

\* the seven categories of PROMPT_TEMPLATE, lowercase
Labels ==
    { <<"reverse punchline">>,
      <<"figurative literalism or homophonic pun">>,
      <<"cultural or linguistic switchbait">>,
      <<"inevitable contradiction">>,
      <<"semantic misdirection">>,
      <<"pure nonsense">>,
      <<"normal sentence">> }

\* DrivelologyResponseModel: two fields of type str, nothing more is validated
DrivelologyResponseModel(reason, category) == [reason |-> reason, category |-> category]

\* what the completion provider may return on success
Responses ==
    { DrivelologyResponseModel(<<"why">>, <<"pure nonsense">>),
      DrivelologyResponseModel(<<"why">>, <<>>),
      DrivelologyResponseModel(<<"why", NL, "so">>, <<"other">>) }

Record(id, text) ==
    [id |-> id, text |-> text, created_datetime |-> <<"c">>, modified_datetime |-> <<"m">>]

\* the rows the sheet may hold, in sheet order: the first and the third share
\* an id
Records ==
    << Record(<<"1">>, <<"x", NL, "y">>),
       Record(<<"2">>, <<"x">>),
       Record(<<"1">>, <<"x", TAB, "y">>) >>

\* the rows of Records at the positions in keep, in order
RECURSIVE Pick(_, _)
Pick(keep, k) ==
    IF k > Len(Records) THEN <<>>
    ELSE (IF k \in keep THEN <<Records[k]>> ELSE <<>>) \o Pick(keep, k + 1)

\* the sheets of the model: any choice of up to MaxRows of the rows
RowSources ==
    { Pick(keep, 1) : keep \in { K \in SUBSET DOMAIN Records : Cardinality(K) <= MaxRows } }

UniqueIds(rs) == \A i, j \in DOMAIN rs : rs[i].id = rs[j].id => i = j

\* ----- the pieces of main() -----

\* mutation: the newlines of the text are kept
KeepNewlines(text) == text

\* text = text.replace('\n', ' ')
NormalizeText(text) == Replace(text, NL, SP)

\* f"{id}\t{text}\t{created_datetime}\t{modified_datetime}\t{reason}\t{category}\n"
FormatEntry(id, text, created, modified, reason, category) ==
    id \o <<TAB>> \o text \o <<TAB>> \o created \o <<TAB>> \o modified
       \o <<TAB>> \o reason \o <<TAB>> \o category \o <<NL>>

\* line.strip().split('\t')
LineFields(line) == Split(Strip(line), TAB)

\* mutation: a line of any field count is accepted
UnpackAny(fields) == TRUE

\* the six-name tuple unpacking: any other field count raises ValueError
UnpackOk(fields) == Len(fields) = 6

\* the ids on the lines of a store file (first field of every line)
StoreIds(content) ==
    LET lines == ReadLines(content)
    IN  { LineFields(lines[i])[1] : i \in DOMAIN lines }

\* mutation: the loop never adds to exist_ids
LoadForgets(content) ==
    LET lines == ReadLines(content)
    IN  [ ok  |-> \A i \in DOMAIN lines : UnpackOk(LineFields(lines[i])),
          ids |-> {} ]

\* the load loop: ok is FALSE when a line raised
LoadExistIds(content) ==
    LET lines == ReadLines(content)
    IN  [ ok  |-> \A i \in DOMAIN lines : UnpackOk(LineFields(lines[i])),
          ids |-> StoreIds(content) ]

\* mutation: the membership test is dropped
SkipNever(id, ids) == FALSE

\* if id in exist_ids
SkipCheck(id, ids) == id \in ids

\* mutation: the pointer is not advanced
NextKeyIndexStuck(i, n) == i

\* mutation: the modulus is off by one
NextKeyIndexOffByOne(i, n) == (i + 1) % (n + 1)

\* api_key_index = (api_key_index + 1) % len(api_key_pool)
NextKeyIndex(i, n) == (i + 1) % n

\* mutation: the loop body runs once even for an empty pool
MoreKeysAtLeastOnce(a, n) == a < n \/ a = 0

\* for attempt in range(len(api_key_pool)): there is an iteration number a
MoreKeys(a, n) == a < n

\* mutation: the file is opened with 'w'
Overwrite(content, entry) == entry

\* open(save_file, 'a') ... f.write(entry)
AppendTo(content, entry) == content \o entry

\* if not success:
GiveUp(ok) == ~ok

\* mutation: break instead of continue
AfterGiveUpBreak == "done"

\* continue: on to the next row
AfterGiveUp == "loop"

\* mutation: the exception is swallowed and main() goes on to the write
OnCallRaisesGoesOn == "check"

\* run_gpt.py: nothing catches what llm.generate_data raises, main() ends
OnCallRaises == "aborted"

\* the name `response` before the first successful call of a run
NoResponse == DrivelologyResponseModel(<<>>, <<>>)

\* ----- the state -----

VARIABLES
    variant,         \* "gpt" (run_gpt.py) or "deepseek" (run_deepseek.py)
    rows,            \* worksheet_df: the rows of the sheet, in order
    poolSize,        \* len(api_key_pool)
    dirExists,       \* the directory data/ exists
    fileExists,      \* save_file exists
    store,           \* the content of save_file
    pc,              \* where main() is
    exist_ids,       \* exist_ids
    index,           \* position of the for loop over the rows (1-based)
    api_key_index,   \* api_key_index
    attempt,         \* the loop variable of range(len(api_key_pool))
    success,         \* success
    response,        \* response
    \* history of the current run
    runs,            \* runs started so far
    status,          \* per row: PENDING, SKIPPED, SUCCEEDED or EXHAUSTED
    attempts,        \* per row: classification calls made
    classified,      \* rows whose classification call returned
    appended,        \* per row: entries written
    storeAtStart,    \* the store content when the run started
    existedAtStart,  \* whether save_file existed when the run started
    abortAt,         \* where the run raised: "none", "load", "classify"
    ptrBefore,       \* api_key_index when the current record's attempts began
    advances,        \* pointer advances made for the current record
    lastWrite,       \* the last write: <<>> or <<[row, response, entry]>>
    prevStatus,      \* status at the end of the previous run
    prevEnd,         \* how the previous run ended
    tried,           \* the pool indices called for the current record, in order
    failedKeys,      \* the pool indices whose call has failed in this run
    sinceFail        \* per failed index: the indices that failed since it last failed

progVars == <<variant, rows, poolSize, dirExists, fileExists, store, pc, exist_ids,
              index, api_key_index, attempt, success, response>>
histVars == <<runs, status, attempts, classified, appended, storeAtStart,
              existedAtStart, abortAt, ptrBefore, advances, lastWrite,
              prevStatus, prevEnd, tried, failedKeys, sinceFail>>
keyHist == <<tried, failedKeys, sinceFail>>
vars == <<progVars, histVars>>

Variants == {"gpt", "deepseek"}
Running == {"load", "loop", "try", "check"}
Ended == {"idle", "done", "aborted", "killed"}

AllRows(v) == [i \in DOMAIN rows |-> v]

\* the indices of api_key_pool
Keys == 0..(poolSize - 1)

Init ==
    /\ variant \in Variants
    /\ rows \in RowSources
    /\ poolSize \in (IF variant = "gpt" THEN {1} ELSE 0..MaxKeys)
    /\ dirExists \in BOOLEAN
    /\ fileExists = dirExists
    /\ store = <<>>
    /\ pc = "idle"
    /\ exist_ids = {}
    /\ index = 0
    /\ api_key_index = 0
    /\ attempt = 0
    /\ success = FALSE
    /\ response = NoResponse
    /\ runs = 0
    /\ status = AllRows("PENDING")
    /\ attempts = AllRows(0)
    /\ classified = {}
    /\ appended = AllRows(0)
    /\ storeAtStart = <<>>
    /\ existedAtStart = fileExists
    /\ abortAt = "none"
    /\ ptrBefore = 0
    /\ advances = 0
    /\ lastWrite = <<>>
    /\ prevStatus = AllRows("PENDING")
    /\ prevEnd = "idle"
    /\ tried = <<>>
    /\ failedKeys = {}
    /\ sinceFail = [k \in Keys |-> {}]

\* ----- process start -----

\* what every start of main() does to the history
BeginHistory ==
    /\ runs' = runs + 1
    /\ status' = AllRows("PENDING")
    /\ attempts' = AllRows(0)
    /\ classified' = {}
    /\ appended' = AllRows(0)
    /\ storeAtStart' = store
    /\ existedAtStart' = fileExists
    /\ ptrBefore' = 0
    /\ advances' = 0
    /\ lastWrite' = <<>>
    /\ prevStatus' = status
    /\ prevEnd' = pc
    /\ tried' = <<>>
    /\ failedKeys' = {}
    /\ sinceFail' = [k \in Keys |-> {}]

\* os.makedirs('data', exist_ok=True) when save_file is absent; the key list
\* is read and the sheet is fetched
StartRun ==
    /\ pc \in Ended
    /\ runs < MaxRuns
    /\ dirExists' = TRUE
    /\ pc' = "load"
    /\ exist_ids' = {}
    /\ index' = 0
    /\ api_key_index' = 0
    /\ attempt' = 0
    /\ success' = FALSE
    /\ response' = NoResponse
    /\ abortAt' = "none"
    /\ BeginHistory
    /\ UNCHANGED <<variant, rows, poolSize, fileExists, store>>

\* ----- loading the store -----

\* run_deepseek.py guards the read by os.path.exists; run_gpt.py opens the file
\* unconditionally
CanOpen == fileExists \/ variant = "deepseek"

Loaded == IF fileExists THEN LoadExistIds(store) ELSE [ok |-> TRUE, ids |-> {}]

LoadStore ==
    /\ pc = "load"
    /\ CanOpen
    /\ Loaded.ok
    /\ exist_ids' = Loaded.ids
    /\ api_key_index' = 0
    /\ index' = 1
    /\ pc' = "loop"
    /\ UNCHANGED <<variant, rows, poolSize, dirExists, fileExists, store, attempt,
                   success, response>>
    /\ UNCHANGED histVars

\* FileNotFoundError from open(save_file, 'r'), or ValueError from the unpacking
LoadFails ==
    /\ pc = "load"
    /\ ~(CanOpen /\ Loaded.ok)
    /\ pc' = "aborted"
    /\ abortAt' = "load"
    /\ UNCHANGED <<variant, rows, poolSize, dirExists, fileExists, store, exist_ids,
                   index, api_key_index, attempt, success, response>>
    /\ UNCHANGED <<runs, status, attempts, classified, appended, storeAtStart,
                   existedAtStart, ptrBefore, advances, lastWrite, prevStatus, prevEnd>>
    /\ UNCHANGED keyHist

\* ----- the loop over the rows -----

InLoop == pc = "loop" /\ index <= Len(rows)

\* the for loop is exhausted: main() returns
Finish ==
    /\ pc = "loop"
    /\ index > Len(rows)
    /\ pc' = "done"
    /\ UNCHANGED <<variant, rows, poolSize, dirExists, fileExists, store, exist_ids,
                   index, api_key_index, attempt, success, response>>
    /\ UNCHANGED histVars

\* if id in exist_ids: continue
Skip ==
    /\ InLoop
    /\ SkipCheck(rows[index].id, exist_ids)
    /\ status' = [status EXCEPT ![index] = "SKIPPED"]
    /\ index' = index + 1
    /\ UNCHANGED <<variant, rows, poolSize, dirExists, fileExists, store, pc, exist_ids,
                   api_key_index, attempt, success, response>>
    /\ UNCHANGED <<runs, attempts, classified, appended, storeAtStart, existedAtStart,
                   abortAt, ptrBefore, advances, lastWrite, prevStatus, prevEnd>>
    /\ UNCHANGED keyHist

\* success = False; the for loop over range(len(api_key_pool)) is entered
\* (it has no iteration when the pool is empty)
Begin ==
    /\ InLoop
    /\ ~SkipCheck(rows[index].id, exist_ids)
    /\ success' = FALSE
    /\ attempt' = 0
    /\ ptrBefore' = api_key_index
    /\ advances' = 0
    /\ pc' = IF variant = "gpt" \/ MoreKeys(0, poolSize) THEN "try" ELSE "check"
    /\ UNCHANGED <<variant, rows, poolSize, dirExists, fileExists, store, exist_ids,
                   index, api_key_index, response>>
    /\ UNCHANGED <<runs, status, attempts, classified, appended, storeAtStart,
                   existedAtStart, abortAt, lastWrite, prevStatus, prevEnd>>
    /\ tried' = <<>>
    /\ UNCHANGED <<failedKeys, sinceFail>>

\* llm.generate_data(...) returns a validated response: success = True; break
CallSucceeds ==
    /\ pc = "try"
    /\ \E r \in Responses : response' = r
    /\ success' = TRUE
    /\ attempts' = [attempts EXCEPT ![index] = @ + 1]
    /\ classified' = classified \cup {index}
    /\ pc' = "check"
    /\ UNCHANGED <<variant, rows, poolSize, dirExists, fileExists, store, exist_ids,
                   index, api_key_index, attempt>>
    /\ UNCHANGED <<runs, status, appended, storeAtStart, existedAtStart, abortAt,
                   ptrBefore, advances, lastWrite, prevStatus, prevEnd>>
    /\ tried' = IF variant = "deepseek" THEN Append(tried, api_key_index) ELSE tried
    /\ UNCHANGED <<failedKeys, sinceFail>>

\* run_deepseek.py: the call raises, the pointer moves on, the for loop goes on
\* or ends
CallFailsRotate ==
    /\ pc = "try"
    /\ variant = "deepseek"
    /\ attempts' = [attempts EXCEPT ![index] = @ + 1]
    /\ api_key_index' = NextKeyIndex(api_key_index, poolSize)
    /\ advances' = advances + 1
    /\ attempt' = attempt + 1
    /\ pc' = IF MoreKeys(attempt + 1, poolSize) THEN "try" ELSE "check"
    /\ UNCHANGED <<variant, rows, poolSize, dirExists, fileExists, store, exist_ids,
                   index, success, response>>
    /\ UNCHANGED <<runs, status, classified, appended, storeAtStart, existedAtStart,
                   abortAt, ptrBefore, lastWrite, prevStatus, prevEnd>>
    /\ tried' = Append(tried, api_key_index)
    /\ failedKeys' = failedKeys \cup {api_key_index}
    /\ sinceFail' = [k \in Keys |->
                        IF k = api_key_index \/ k \notin failedKeys THEN {}
                        ELSE sinceFail[k] \cup {api_key_index}]

\* run_gpt.py: the call raises and nothing catches it
CallFailsAbort ==
    /\ pc = "try"
    /\ variant = "gpt"
    /\ attempts' = [attempts EXCEPT ![index] = @ + 1]
    /\ pc' = OnCallRaises
    /\ abortAt' = "classify"
    /\ UNCHANGED <<variant, rows, poolSize, dirExists, fileExists, store, exist_ids,
                   index, api_key_index, attempt, success, response>>
    /\ UNCHANGED <<runs, status, classified, appended, storeAtStart, existedAtStart,
                   ptrBefore, advances, lastWrite, prevStatus, prevEnd>>
    /\ UNCHANGED keyHist

\* run_deepseek.py only: if not success: continue
GivesUp == variant = "deepseek" /\ GiveUp(success)

Exhausted ==
    /\ pc = "check"
    /\ GivesUp
    /\ status' = [status EXCEPT ![index] = "EXHAUSTED"]
    /\ index' = index + 1
    /\ pc' = AfterGiveUp
    /\ UNCHANGED <<variant, rows, poolSize, dirExists, fileExists, store, exist_ids,
                   api_key_index, attempt, success, response>>
    /\ UNCHANGED <<runs, attempts, classified, appended, storeAtStart, existedAtStart,
                   abortAt, ptrBefore, advances, lastWrite, prevStatus, prevEnd>>
    /\ UNCHANGED keyHist

\* the entry main() writes for the current row and response
CurrentEntry ==
    FormatEntry(rows[index].id, NormalizeText(rows[index].text),
                rows[index].created_datetime, rows[index].modified_datetime,
                response.reason, response.category)

\* response.model_dump(); open(save_file, 'a'); f.write(...); next row.  The
\* entry is far smaller than the file buffer, so it reaches the file in one
\* write when the with block closes it: a killed process leaves all of it or
\* none of it
AppendEntry ==
    /\ pc = "check"
    /\ ~GivesUp
    /\ store' = AppendTo(store, CurrentEntry)
    /\ fileExists' = TRUE
    /\ status' = [status EXCEPT ![index] = "SUCCEEDED"]
    /\ appended' = [appended EXCEPT ![index] = @ + 1]
    /\ lastWrite' = <<[row |-> rows[index], response |-> response, entry |-> CurrentEntry]>>
    /\ index' = index + 1
    /\ pc' = "loop"
    /\ UNCHANGED <<variant, rows, poolSize, dirExists, exist_ids, api_key_index,
                   attempt, success, response>>
    /\ UNCHANGED <<runs, attempts, classified, storeAtStart, existedAtStart, abortAt,
                   ptrBefore, advances, prevStatus, prevEnd>>
    /\ UNCHANGED keyHist

\* the process is killed (or the machine stops) between two steps
Kill ==
    /\ pc \in Running
    /\ pc' = "killed"
    /\ UNCHANGED <<variant, rows, poolSize, dirExists, fileExists, store, exist_ids,
                   index, api_key_index, attempt, success, response>>
    /\ UNCHANGED histVars

Next ==
    \/ StartRun
    \/ LoadStore
    \/ LoadFails
    \/ Finish
    \/ Skip
    \/ Begin
    \/ CallSucceeds
    \/ CallFailsRotate
    \/ CallFailsAbort
    \/ Exhausted
    \/ AppendEntry
    \/ Kill

Spec == Init /\ [][Next]_vars

\* ----- notions the properties use -----

RowIds == { rows[i].id : i \in DOMAIN rows }

\* the number of lines of a store file that carry the id
CountId(content, id) ==
    LET lines == ReadLines(content)
    IN  Cardinality({ i \in DOMAIN lines : LineFields(lines[i])[1] = id })

\* the ids in the store when the current run started
IdsAtStart == StoreIds(storeAtStart)

NoAttempts == \A i \in DOMAIN rows : attempts[i] = 0

\* the run is through with row i
Processed(i) == status[i] # "PENDING"

\* ----- C1 -----
\* C1 (at-most-once write): from an empty store, after any number of runs of
\* either variant, completed, aborted or killed, over a sheet whose ids are
\* unique, no record id is the id of more than one line of the store.
C1_AtMostOnceWrite ==
    UniqueIds(rows) => \A id \in RowIds : CountId(store, id) <= 1

\* a second run has skipped a record the first run stored and stored another
C1_Witness ==
    /\ UniqueIds(rows)
    /\ Len(rows) = 2
    /\ runs = 2
    /\ pc = "done"
    /\ status[1] = "SKIPPED"
    /\ status[2] = "SUCCEEDED"
    /\ \A id \in RowIds : CountId(store, id) = 1

\* ----- C2 -----
\* C2 (checkpoint correctness): a record whose id is in the store when the run
\* starts gets no classification call and no entry in that run, the number of
\* lines with its id stays what it was, and once the loop is through with it
\* (and so at normal completion) it is SKIPPED; when every record's id is in
\* the store at the start the run makes no call and the store is unchanged.
C2_Checkpoint ==
    /\ \A i \in DOMAIN rows :
          rows[i].id \in IdsAtStart =>
             /\ attempts[i] = 0
             /\ appended[i] = 0
             /\ CountId(store, rows[i].id) = CountId(storeAtStart, rows[i].id)
             /\ status[i] \in {"PENDING", "SKIPPED"}
             /\ (index > i \/ pc = "done") => status[i] = "SKIPPED"
    /\ RowIds \subseteq IdsAtStart => NoAttempts /\ store = storeAtStart

\* a completed run that skipped a stored record and classified another one
C2_Witness ==
    /\ pc = "done"
    /\ Len(rows) = 2
    /\ rows[2].id \in IdsAtStart
    /\ status[2] = "SKIPPED"
    /\ rows[1].id \notin IdsAtStart
    /\ attempts[1] >= 1

\* ----- C3 -----
\* C3 as the specification states it (idempotence): after a first complete run
\* from an empty store, a second complete run makes no classification call,
\* skips every record and leaves the store as the first run left it.
C3_IdempotentAsStated ==
    (runs = 2 /\ prevEnd = "done" /\ pc = "done") =>
        /\ NoAttempts
        /\ store = storeAtStart
        /\ \A i \in DOMAIN rows : status[i] = "SKIPPED"

\* C3 (amended): when the first run from an empty store completes with every
\* record SUCCEEDED, the second run over the same sheet makes no classification
\* call, leaves the store as the first run left it, and every record it gets
\* to is SKIPPED.
C3_IdempotentAfterCleanRun ==
    (runs = 2 /\ prevEnd = "done" /\ \A i \in DOMAIN rows : prevStatus[i] = "SUCCEEDED") =>
        /\ NoAttempts
        /\ store = storeAtStart
        /\ \A i \in DOMAIN rows :
              /\ status[i] \in {"PENDING", "SKIPPED"}
              /\ (index > i \/ pc = "done") => status[i] = "SKIPPED"

\* the second run after a first run that stored both records of the sheet
C3_Witness ==
    /\ runs = 2
    /\ prevEnd = "done"
    /\ Len(rows) = 2
    /\ \A i \in DOMAIN rows : prevStatus[i] = "SUCCEEDED"
    /\ pc = "done"
    /\ \A i \in DOMAIN rows : status[i] = "SKIPPED"

\* ----- C4 -----
\* C4 (key rotation bound): in run_deepseek.py with a pool of N >= 1 keys, a
\* record that ends EXHAUSTED has had exactly N classification calls, the
\* pointer was advanced exactly N times for it, and the pointer is back at the
\* value it had before the record.
C4_KeyRotationBound ==
    (/\ variant = "deepseek"
     /\ poolSize >= 1
     /\ pc = "loop"
     /\ index > 1
     /\ status[index - 1] = "EXHAUSTED") =>
        /\ attempts[index - 1] = poolSize
        /\ advances = poolSize
        /\ api_key_index = ptrBefore

\* a record is exhausted with the pointer starting (and ending) at the second
\* of two keys
C4_Witness ==
    /\ variant = "deepseek"
    /\ poolSize = 2
    /\ pc = "loop"
    /\ index > 1
    /\ status[index - 1] = "EXHAUSTED"
    /\ ptrBefore = 1
    /\ api_key_index = 1
    /\ attempts[index - 1] = 2

\* ----- C5 -----
\* the record the loop is at and has not finished
InFlight(i) == i = index /\ status[i] = "PENDING"

\* C5 as the specification states it (per-record checkpointing), second half:
\* the run after an interrupted run, when it completes, has made classification
\* calls for exactly the records whose ids were not in the store.
C5_ResumesExactlyAsStated ==
    (prevEnd \in {"killed", "aborted"} /\ pc = "done") =>
        \A i \in DOMAIN rows : attempts[i] >= 1 <=> rows[i].id \notin IdsAtStart

\* C5 (amended): at every point of a run, so wherever it is interrupted, every
\* record whose classification call has returned, but for the one record in
\* flight, has its entry in the store; a run that has loaded the store holds
\* exactly the store's ids as its completed set; it makes calls only for
\* records whose ids were not in the store, and every record it is through with
\* has had a call exactly when its id was not in the store and the key pool is
\* not empty.
C5_PerRecordCheckpoint ==
    /\ \A i \in classified :
          \/ appended[i] = 1 /\ rows[i].id \in StoreIds(store)
          \/ InFlight(i)
    /\ pc \in {"loop", "try", "check", "done"} => exist_ids = IdsAtStart
    /\ \A i \in DOMAIN rows :
          /\ attempts[i] >= 1 => rows[i].id \notin IdsAtStart
          /\ Processed(i) =>
                (attempts[i] >= 1 <=> (rows[i].id \notin IdsAtStart /\ poolSize >= 1))

\* a run was killed with the first record stored and the second one classified
\* but not yet written; the next run skipped the first and classified the second
C5_Witness ==
    /\ Len(rows) = 2
    /\ prevEnd = "killed"
    /\ prevStatus[1] = "SUCCEEDED"
    /\ prevStatus[2] = "PENDING"
    /\ pc = "done"
    /\ status[1] = "SKIPPED"
    /\ attempts[1] = 0
    /\ attempts[2] >= 1
    /\ status[2] = "SUCCEEDED"

C7_AbsentStoreIsEmptyStore ==
    (runs >= 1 /\ ~existedAtStart) =>
        /\ dirExists
        /\ abortAt # "load"
        /\ exist_ids = {}
        /\ \A i \in DOMAIN rows : status[i] # "SKIPPED"

\* ----- C8 -----
HasToken(s, c) == \E i \in DOMAIN s : s[i] = c

\* a line without its terminator
Chomp(line) ==
    IF line # <<>> /\ line[Len(line)] = NL THEN SubSeq(line, 1, Len(line) - 1) ELSE line

\* the written text is one line whose tab-separated fields are the six values,
\* the text with every newline replaced by a space
OneLineOfSix(w) ==
    LET lines == ReadLines(w.entry)
    IN  /\ Len(lines) = 1
        /\ Split(Chomp(lines[1]), TAB) =
              << w.row.id, Replace(w.row.text, NL, SP), w.row.created_datetime,
                 w.row.modified_datetime, w.response.reason, w.response.category >>

\* the id, the timestamps, the reason and the category hold neither tab nor
\* newline (what the reason and the category may hold is the matter of C18)
PlainBesidesText(w) ==
    \A v \in { w.row.id, w.row.created_datetime, w.row.modified_datetime,
               w.response.reason, w.response.category } :
        ~HasToken(v, TAB) /\ ~HasToken(v, NL)

C9_CategoryIsLabel ==
    lastWrite # <<>> =>
        LET fields == Split(Chomp(lastWrite[1].entry), TAB)
        IN  fields[Len(fields)] \in Labels

\* ----- C10 -----
\* a line of the store that the load does not take apart into six fields
Malformed(content) ==
    LET lines == ReadLines(content)
    IN  \E i \in DOMAIN lines : Len(Split(Strip(lines[i]), TAB)) # 6

C11_SingleAttemptThenAbort ==
    variant = "gpt" =>
        /\ \A i \in DOMAIN rows :
              /\ attempts[i] <= 1
              /\ status[i] = "SUCCEEDED" => attempts[i] = 1
              /\ (Processed(i) /\ rows[i].id \notin IdsAtStart) => attempts[i] = 1
              /\ status[i] # "EXHAUSTED"
        /\ abortAt = "classify" =>
              /\ pc = "aborted"
              /\ index \in DOMAIN rows
              /\ attempts[index] = 1
              /\ appended[index] = 0
              /\ status[index] = "PENDING"
              /\ \A j \in DOMAIN rows :
                    j > index => attempts[j] = 0 /\ status[j] = "PENDING" /\ appended[j] = 0
              /\ \A j \in DOMAIN rows :
                    (j < index /\ status[j] = "SUCCEEDED") =>
                        appended[j] = 1 /\ rows[j].id \in StoreIds(store)
              /\ SubSeq(store, 1, Len(storeAtStart)) = storeAtStart

\* the call for the second record failed after the first record was stored
C11_Witness ==
    /\ variant = "gpt"
    /\ Len(rows) = 2
    /\ abortAt = "classify"
    /\ pc = "aborted"
    /\ index = 2
    /\ status[1] = "SUCCEEDED"
    /\ rows[1].id \in StoreIds(store)
    /\ attempts[2] = 1

\* ----- C12 -----
IsPrefix(a, b) == Len(a) <= Len(b) /\ SubSeq(b, 1, Len(a)) = a

\* C12 (append-only store): in every step of every run, completed, aborted or
\* killed, and from one run to the next, the lines of the store before the
\* step are a prefix of its lines after the step, and the file is never
\* removed; so the lines at any earlier moment are a prefix of the lines at
\* any later moment.
C12_AppendOnly ==
    [][ /\ IsPrefix(ReadLines(store), ReadLines(store'))
        /\ fileExists => fileExists' ]_vars

\* a run that followed a killed run has added a line after the lines it found
C12_Witness ==
    /\ runs = 2
    /\ prevEnd = "killed"
    /\ storeAtStart # <<>>
    /\ IsPrefix(ReadLines(storeAtStart), ReadLines(store))
    /\ Len(ReadLines(store)) > Len(ReadLines(storeAtStart))

\* ----- C13 -----
\* C13 (uniqueness by the skip check alone): whatever ids the sheet holds, two
\* rows with the same id included, no record id is the id of more than one
\* line of the store, and a row whose id an earlier row of the same run has
\* stored is not classified but SKIPPED.
C13_UniqueBySkipAlone ==
    /\ \A id \in RowIds : CountId(store, id) <= 1
    /\ \A i, j \in DOMAIN rows :
          (i < j /\ rows[i].id = rows[j].id /\ status[i] = "SUCCEEDED") =>
              attempts[j] = 0 /\ status[j] \in {"PENDING", "SKIPPED"}

\* ----- C14 -----
\* the pool indices called for the current record, as a set
TriedSet == { tried[k] : k \in DOMAIN tried }

\* C14 (rotation within one record): in the key-pool variant, whatever calls
\* fail, the credentials called for the current record are pairwise distinct,
\* the k-th of them is the one k - 1 places after the pointer the record
\* started with, cyclically, no call is made once one has succeeded, there are
\* as many calls as the record has attempts, and a record is given up (and only
\* then marked EXHAUSTED) when every credential of the pool has been called for
\* it.
C14_RotationPerRecord ==
    variant = "deepseek" =>
        /\ Len(tried) <= poolSize
        /\ \A a, b \in DOMAIN tried : a # b => tried[a] # tried[b]
        /\ \A k \in DOMAIN tried : tried[k] = (ptrBefore + (k - 1)) % poolSize
        /\ pc = "try" => ~success /\ api_key_index \notin TriedSet
        /\ pc \in {"try", "check"} => attempts[index] = Len(tried)
        /\ (pc = "check" /\ success) =>
               \A k \in DOMAIN tried : k < Len(tried) => tried[k] \in failedKeys
        /\ (pc = "check" /\ GivesUp) => TriedSet = Keys
        /\ \A i \in DOMAIN rows : status[i] = "EXHAUSTED" => attempts[i] = poolSize

\* the second record started at pointer 1 and its calls went 1, 0, both failing
C14_Witness ==
    /\ variant = "deepseek"
    /\ poolSize = 2
    /\ index = 2
    /\ ptrBefore = 1
    /\ tried = <<1, 0>>
    /\ pc = "check"
    /\ ~success

\* ----- C15 -----
\* a step that makes a classification call; the credential it uses is the one
\* the pointer names before the step
CallStep == attempts' # attempts

\* C15 (a failed credential waits its turn): within one run of the key-pool
\* variant, a call is made with a credential that has failed earlier in the
\* run only when every other credential of the pool has failed since that
\* failure, for the same record or a later one.
C15_FailedKeyWaits ==
    [][ (variant = "deepseek" /\ CallStep /\ api_key_index \in failedKeys) =>
            sinceFail[api_key_index] = Keys \ {api_key_index} ]_vars

\* both credentials failed for the first record and the second record's call
\* went to credential 0 again, after credential 1 had failed
C15_Witness ==
    /\ variant = "deepseek"
    /\ poolSize = 2
    /\ index = 2
    /\ status[1] = "EXHAUSTED"
    /\ tried = <<0>>
    /\ attempts[2] = 1
    /\ failedKeys = {0, 1}
    /\ sinceFail[0] = {1}
    /\ success

\* ----- C16 -----
\* a step of the key-pool variant inside one run: a failed call moves the
\* pointer to the next index modulo the pool size, and every other step (a
\* skipped record, a successful call, an append, giving a record up, going on
\* to the next record, the end of the run, a kill) leaves it where it is
PointerFrame ==
    (variant = "deepseek" /\ runs' = runs) =>
        IF CallStep /\ ~success'
        THEN api_key_index' = (api_key_index + 1) % poolSize
        ELSE api_key_index' = api_key_index

\* C16 as stated: in the key-pool variant the pointer is always an index of
\* the pool, whatever the pool size, and obeys the frame condition.
C16_PointerFrameAsStated ==
    /\ [](variant = "deepseek" => api_key_index \in Keys)
    /\ [][PointerFrame]_vars

\* C16 (pointer frame condition), amended: in the key-pool variant with a pool
\* of at least one credential the pointer is always an index of the pool; with
\* an empty pool it stays 0 and no call reads it; in both cases only a failed
\* call changes it, to (pointer + 1) mod N, and the first call for a record
\* uses the value the previous record left.
C16_PointerFrame ==
    /\ [](variant = "deepseek" =>
            /\ poolSize >= 1 => api_key_index \in Keys
            /\ poolSize = 0 => api_key_index = 0 /\ NoAttempts
            /\ (pc = "try" /\ tried = <<>>) => api_key_index = ptrBefore)
    /\ [][PointerFrame]_vars

\* the first record failed on credential 0 and succeeded on credential 1; the
\* second record's first call used credential 1 and succeeded, pointer unmoved
C16_Witness ==
    /\ variant = "deepseek"
    /\ poolSize = 2
    /\ index = 2
    /\ status[1] = "SUCCEEDED"
    /\ attempts[1] = 2
    /\ tried = <<1>>
    /\ success
    /\ api_key_index = 1

\* ----- C17 -----
\* C17 (termination and terminal states of the key-pool variant), the part a
\* finite run can refute: with a pool of at least one credential a run never
\* ends by an error, no record gets more calls than the pool has credentials,
\* and when the run has returned every record is SKIPPED, SUCCEEDED or
\* EXHAUSTED, SUCCEEDED exactly when the run appended one entry for it.
C17_TerminatesNormally ==
    (variant = "deepseek" /\ poolSize >= 1) =>
        /\ pc # "aborted"
        /\ \A i \in DOMAIN rows : attempts[i] <= poolSize
        /\ pc = "done" =>
               \A i \in DOMAIN rows :
                   /\ status[i] \in {"SKIPPED", "SUCCEEDED", "EXHAUSTED"}
                   /\ status[i] = "SUCCEEDED" <=> appended[i] = 1

\* ----- C18 -----
\* no field of a row holds a tab
NoTabInRows ==
    \A i \in DOMAIN rows :
        \A v \in { rows[i].id, rows[i].text, rows[i].created_datetime,
                   rows[i].modified_datetime } : ~HasToken(v, TAB)

\* C18 (write/load round trip): when the first run, from an empty store, has
\* appended entries for rows without a tab in any field, whatever reason and
\* category the classifier returned, the second run's load does not raise and
\* the ids it loads are exactly the ids of the rows the first run appended.
C18_WriteLoadRoundTrip ==
    ( /\ runs = 2
      /\ existedAtStart
      /\ NoTabInRows
      /\ \E i \in DOMAIN rows : prevStatus[i] = "SUCCEEDED"
      /\ pc # "load" ) =>
        /\ abortAt # "load"
        /\ exist_ids = { rows[i].id : i \in { j \in DOMAIN rows : prevStatus[j] = "SUCCEEDED" } }

\* ----- C19 -----
\* a step of the run other than a kill is possible
CanGoOn == ENABLED (LoadStore \/ Finish \/ Skip \/ Begin \/ Exhausted)

\* C19 (empty key pool): in the key-pool variant with no credential the run
\* never raises and never gets to a classification call, no call is counted,
\* the store stays what it was when the run started, every record the run is
\* through with is SKIPPED if its id was in the store and EXHAUSTED otherwise,
\* a run that has not ended can always go on, and a run that has returned is
\* through with every record.
C19_EmptyPool ==
    (variant = "deepseek" /\ poolSize = 0) =>
        /\ pc \notin {"aborted", "try"}
        /\ abortAt = "none"
        /\ NoAttempts
        /\ runs >= 1 => store = storeAtStart /\ fileExists = existedAtStart
        /\ \A i \in DOMAIN rows :
               Processed(i) =>
                   status[i] = (IF rows[i].id \in IdsAtStart THEN "SKIPPED" ELSE "EXHAUSTED")
        /\ pc \in Running => CanGoOn
        /\ pc = "check" => GivesUp
        /\ pc = "done" => \A i \in DOMAIN rows : Processed(i)

\* a run over two rows with an empty pool has returned, both rows EXHAUSTED
C19_Witness ==
    /\ variant = "deepseek"
    /\ poolSize = 0
    /\ Len(rows) = 2
    /\ pc = "done"
    /\ status[1] = "EXHAUSTED"
    /\ status[2] = "EXHAUSTED"
    /\ store = storeAtStart

====
